---- MODULE Spec2Model ----
(***************************************************************************)
(* Streaming transcript reconciliation of the chat client:                 *)
(*   - chatApi.streamChat (src/unnamed/part_012): SSE frame decoder         *)
(*   - useChatStore (lib/stores/chatStore.ts): payload decoding, frame     *)
(*     folding, turn lifecycle, cancellation                               *)
(*   - InputArea.handleSubmit (src/unnamed/part_005): the send guard       *)
(* Strings are TLA+ strings; the response body is a string of ASCII bytes  *)
(* (event names and base64 payloads are ASCII on the wire), which          *)
(* TextDecoder.decode(value, {stream: true}) maps byte for byte to the     *)
(* same characters, whatever the chunk boundaries.                         *)
(***************************************************************************)
EXTENDS Integers, Sequences, FiniteSets, TLC

(***************************************************************************)
(* Optional values: null / undefined is the empty tuple, a value v is <<v>> *)
(***************************************************************************)
None == <<>>
Some(v) == <<v>>

(***************************************************************************)
(* JavaScript string primitives used by the decoder                        *)
(***************************************************************************)
CharAt(s, i) == SubSeq(s, i, i)

\* String.prototype.slice(n): the string without its first n characters
Slice(s, n) == SubSeq(s, n + 1, Len(s))

StartsWith(s, p) == Len(s) >= Len(p) /\ SubSeq(s, 1, Len(p)) = p

\* white space removed by String.prototype.trim (the ASCII part)
IsSpace(c) == c \in {" ", "\t", "\n", "\r", "\f"}

RECURSIVE TrimLeft(_)
TrimLeft(s) ==
  IF Len(s) > 0 /\ IsSpace(CharAt(s, 1)) THEN TrimLeft(Slice(s, 1)) ELSE s

RECURSIVE TrimRight(_)
TrimRight(s) ==
  IF Len(s) > 0 /\ IsSpace(CharAt(s, Len(s)))
  THEN TrimRight(SubSeq(s, 1, Len(s) - 1))
  ELSE s

Trim(s) == TrimRight(TrimLeft(s))

\* position of the first "\n" of s, 0 when there is none
IndexOfNewline(s) ==
  IF \E i \in 1..Len(s) : CharAt(s, i) = "\n"
  THEN CHOOSE i \in 1..Len(s) :
         /\ CharAt(s, i) = "\n"
         /\ \A j \in 1..(i - 1) : CharAt(s, j) # "\n"
  ELSE 0

\* s.split('\n'): one element more than s has newlines, the last one is
\* what follows the last newline (possibly empty)
RECURSIVE Split(_)
Split(s) ==
  LET k == IndexOfNewline(s)
  IN IF k = 0 THEN <<s>>
     ELSE <<SubSeq(s, 1, k - 1)>> \o Split(Slice(s, k))

(***************************************************************************)
(* atob: forgiving-base64 decode, then TextDecoder('utf-8').decode          *)
(***************************************************************************)
Base64Alphabet ==
  "ABCDEFGHIJKLMNOPQRSTUVWXYZabcdefghijklmnopqrstuvwxyz0123456789+/"

\* printable ASCII, code 32 (space) to 126 (~); the grave accent (code 96)
\* cannot be written in a TLA+ string and is shown as "?"
AsciiPrintable ==
  " !\"#$%&'()*+,-./0123456789:;<=>?@ABCDEFGHIJKLMNOPQRSTUVWXYZ[\\]^_?abcdefghijklmnopqrstuvwxyz{|}~"

Base64Chars == {CharAt(Base64Alphabet, i) : i \in 1..Len(Base64Alphabet)}

InAlphabet(c) == c \in Base64Chars

\* 6-bit value of each base64 character: its position in the alphabet
SextetTable ==
  [c \in Base64Chars |->
     (CHOOSE i \in 1..Len(Base64Alphabet) : CharAt(Base64Alphabet, i) = c) - 1]

SextetOf(c) == SextetTable[c]

\* s without its ASCII white space (atob removes it first)
RECURSIVE StripSpaces(_)
StripSpaces(s) ==
  LET spaces == {i \in 1..Len(s) : IsSpace(CharAt(s, i))}
      k == CHOOSE i \in spaces : \A j \in spaces : i <= j
  IN IF spaces = {} THEN s
     ELSE SubSeq(s, 1, k - 1) \o StripSpaces(Slice(s, k))

\* the padding rule of forgiving-base64: with a length divisible by 4, one
\* or two trailing "=" are removed
StripPadding(s) ==
  IF Len(s) > 0 /\ Len(s) % 4 = 0 /\ CharAt(s, Len(s)) = "="
  THEN IF CharAt(s, Len(s) - 1) = "="
       THEN SubSeq(s, 1, Len(s) - 2)
       ELSE SubSeq(s, 1, Len(s) - 1)
  ELSE s

AllInAlphabet(s) == \A i \in 1..Len(s) : InAlphabet(CharAt(s, i))

\* atob throws InvalidCharacterError exactly when this is FALSE
AtobOk(base64) ==
  LET s == StripPadding(StripSpaces(base64))
  IN Len(s) % 4 # 1 /\ AllInAlphabet(s)

\* the bytes of a stripped base64 string, as a sequence of numbers 0..255
\* (every 4 characters give 3 bytes; 2 or 3 left-over characters give 1 or
\* 2 bytes, their unused low bits are dropped)
Base64Bytes(s) ==
  LET Sextet(i) == SextetOf(CharAt(s, i))
      n == (Len(s) * 6) \div 8
  IN [j \in 1..n |->
        LET q == 4 * ((j - 1) \div 3)
        IN CASE j % 3 = 1 -> Sextet(q + 1) * 4 + (Sextet(q + 2) \div 16)
             [] j % 3 = 2 -> (Sextet(q + 2) % 16) * 16 + (Sextet(q + 3) \div 4)
             [] OTHER -> (Sextet(q + 3) % 4) * 64 + Sextet(q + 4)]

\* TextDecoder('utf-8').decode over ASCII bytes; any other byte is shown as
\* the replacement mark "?" (the payloads of the model are ASCII)
RECURSIVE Utf8Decode(_)
Utf8Decode(bytes) ==
  LET half == Len(bytes) \div 2
  IN IF Len(bytes) = 0 THEN ""
     ELSE IF Len(bytes) = 1
          THEN IF bytes[1] >= 32 /\ bytes[1] <= 126
               THEN CharAt(AsciiPrintable, bytes[1] - 31)
               ELSE "?"
          ELSE Utf8Decode(SubSeq(bytes, 1, half))
                 \o Utf8Decode(SubSeq(bytes, half + 1, Len(bytes)))

\* a decodeBase64UTF8 that gives the empty string when atob throws
decodeBase64UTF8DropsRaw(base64) ==
  IF AtobOk(base64)
  THEN Utf8Decode(Base64Bytes(StripPadding(StripSpaces(base64))))
  ELSE ""

\* decodeBase64UTF8: the decoded text, or the input itself when atob throws
decodeBase64UTF8(base64) ==
  IF AtobOk(base64)
  THEN Utf8Decode(Base64Bytes(StripPadding(StripSpaces(base64))))
  ELSE base64

(***************************************************************************)
(* JSON.parse on the decoded payloads.  The parsed value keeps the         *)
(* properties the handlers read; a property that is absent is None.        *)
(*   syntaxOk = FALSE : JSON.parse throws SyntaxError                      *)
(*   isNull   = TRUE  : the value is null, reading a property throws       *)
(***************************************************************************)
JSONObject ==
  [syntaxOk |-> TRUE, isNull |-> FALSE, output |-> None, duration |-> None,
   conversation_id |-> None, chunk_id |-> None, document_id |-> None,
   score |-> None]

JSONParse(text) ==
  CASE text = "{}" -> JSONObject
    [] text = "null" -> [JSONObject EXCEPT !.isNull = TRUE]
    [] text = "{\"output\":\"ok\",\"duration\":120}" ->
         [JSONObject EXCEPT !.output = Some("ok"), !.duration = Some(120)]
    [] text = "{\"output\":\"ok\",\"durationMs\":120}" ->
         [JSONObject EXCEPT !.output = Some("ok")]
    [] text = "{\"output\":\"no\",\"duration\":7}" ->
         [JSONObject EXCEPT !.output = Some("no"), !.duration = Some(7)]
    [] text = "{\"sourceId\":\"doc1\",\"relevanceScore\":0.8}" -> JSONObject
    [] text = "{\"chunk_id\":\"c1\",\"document_id\":\"doc1\",\"score\":1}" ->
         [JSONObject EXCEPT !.chunk_id = Some("c1"),
                            !.document_id = Some("doc1"), !.score = Some(1)]
    [] text = "{\"conversation_id\":\"abc\"}" ->
         [JSONObject EXCEPT !.conversation_id = Some("abc")]
    [] text = "{\"conversation_id\":\"xyz\"}" ->
         [JSONObject EXCEPT !.conversation_id = Some("xyz")]
    [] OTHER -> [JSONObject EXCEPT !.syntaxOk = FALSE]

(***************************************************************************)
(* Frame decoder: the body of the read loop of chatApi.streamChat          *)
(***************************************************************************)
\* a loop body that does not reset currentEventType after a data: line
DecodeLineSticky(d, line) ==
  LET trimmedLine == Trim(line)
  IN IF StartsWith(trimmedLine, "event:")
     THEN [d EXCEPT !.currentEventType = Trim(Slice(trimmedLine, 6))]
     ELSE IF StartsWith(trimmedLine, "data:")
          THEN LET data == Trim(Slice(trimmedLine, 5))
               IN [currentEventType |-> d.currentEventType,
                   frames |-> IF data # ""
                              THEN Append(d.frames,
                                     [type |-> d.currentEventType, data |-> data])
                              ELSE d.frames]
          ELSE d

\* a loop body that calls onMessage for a data: line without payload too
DecodeLineEmitsEmpty(d, line) ==
  LET trimmedLine == Trim(line)
  IN IF StartsWith(trimmedLine, "event:")
     THEN [d EXCEPT !.currentEventType = Trim(Slice(trimmedLine, 6))]
     ELSE IF StartsWith(trimmedLine, "data:")
          THEN LET data == Trim(Slice(trimmedLine, 5))
               IN [currentEventType |-> "text",
                   frames |-> Append(d.frames,
                                [type |-> d.currentEventType, data |-> data])]
          ELSE d

\* one iteration of "for (const line of lines)"; d = [currentEventType, frames]
\* where frames collects the arguments of the onMessage calls, in order
DecodeLine(d, line) ==
  LET trimmedLine == Trim(line)
  IN IF StartsWith(trimmedLine, "event:")
     THEN [d EXCEPT !.currentEventType = Trim(Slice(trimmedLine, 6))]
     ELSE IF StartsWith(trimmedLine, "data:")
          THEN LET data == Trim(Slice(trimmedLine, 5))
               IN [currentEventType |-> "text",
                   frames |-> IF data # ""
                              THEN Append(d.frames,
                                     [type |-> d.currentEventType, data |-> data])
                              ELSE d.frames]
          ELSE d

RECURSIVE DecodeLines(_, _)
DecodeLines(d, lines) ==
  IF lines = <<>> THEN d
  ELSE DecodeLines(DecodeLine(d, Head(lines)), Tail(lines))

\* the bytes left over by the previous read are not put in front of the chunk
DecodeChunkNoBuffer(buffer, currentEventType, chunk) ==
  LET lines == Split(chunk)
      d == DecodeLines([currentEventType |-> currentEventType, frames |-> <<>>],
                       SubSeq(lines, 1, Len(lines) - 1))
  IN [buffer |-> lines[Len(lines)],
      currentEventType |-> d.currentEventType,
      frames |-> d.frames]

\* buffer += chunk; lines = buffer.split('\n'); buffer = lines.pop() || '';
\* then the loop over the complete lines
DecodeChunk(buffer, currentEventType, chunk) ==
  LET lines == Split(buffer \o chunk)
      d == DecodeLines([currentEventType |-> currentEventType, frames |-> <<>>],
                       SubSeq(lines, 1, Len(lines) - 1))
  IN [buffer |-> lines[Len(lines)],
      currentEventType |-> d.currentEventType,
      frames |-> d.frames]

(***************************************************************************)
(* The chat store.  A store value st is the record                         *)
(*   [messages, heap, conversations, currentConversationId, isStreaming,   *)
(*    error, streamController]                                             *)
(* messages[i].toolCalls holds references into heap, the ToolCall objects: *)
(* copying a toolCalls array copies the references, not the objects.       *)
(* messages.map((m) => m.id === lastMessage.id ? F(m) : m) is written      *)
(* [i \in 1..Len(messages) |-> IF messages[i].id = lastId THEN F(..) ...].  *)
(***************************************************************************)
\* a JavaScript string used as a condition
Truthy(opt) == opt # None /\ opt[1] # ""

\* content.slice(0, 50) + (content.length > 50 ? '...' : '')
TitleOf(content) ==
  SubSeq(content, 1, IF Len(content) < 50 THEN Len(content) ELSE 50)
    \o (IF Len(content) > 50 THEN "..." ELSE "")

\* a fold of text that replaces the content instead of appending to it
FoldTextOverwrite(st, lastId, decodedData) ==
  LET F(m) == [m EXCEPT !.content = decodedData]
  IN [st EXCEPT !.messages = [i \in 1..Len(st.messages) |->
          IF st.messages[i].id = lastId THEN F(st.messages[i]) ELSE st.messages[i]]]

\* a fold of text that also marks the message as streaming
FoldTextMarksStreaming(st, lastId, decodedData) ==
  LET F(m) == [m EXCEPT !.content = m.content \o decodedData,
                        !.isStreaming = TRUE]
  IN [st EXCEPT !.messages = [i \in 1..Len(st.messages) |->
          IF st.messages[i].id = lastId THEN F(st.messages[i]) ELSE st.messages[i]]]

\* case 'text'
FoldText(st, lastId, decodedData) ==
  LET F(m) == [m EXCEPT !.content = m.content \o decodedData]
  IN [st EXCEPT !.messages = [i \in 1..Len(st.messages) |->
          IF st.messages[i].id = lastId THEN F(st.messages[i]) ELSE st.messages[i]]]

\* case 'tool_start'
FoldToolStart(st, lastId, decodedData, time) ==
  LET newToolCall == [id |-> <<"tool", time>>, name |-> decodedData,
                      status |-> "running", output |-> None, duration |-> None]
      ref == Len(st.heap) + 1
      F(m) == [m EXCEPT !.toolCalls = Append(m.toolCalls, ref)]
  IN [st EXCEPT !.heap = Append(st.heap, newToolCall),
                !.messages = [i \in 1..Len(st.messages) |->
          IF st.messages[i].id = lastId THEN F(st.messages[i]) ELSE st.messages[i]]]

\* a tool_end whose payload does not parse is folded as text
FoldToolEndAsText(st, lastId, decodedData) ==
  LET toolData == JSONParse(decodedData)
      F(m) == [m EXCEPT !.content = m.content \o decodedData]
  IN IF ~toolData.syntaxOk
     THEN [st EXCEPT !.messages = [i \in 1..Len(st.messages) |->
          IF st.messages[i].id = lastId THEN F(st.messages[i]) ELSE st.messages[i]]]
     ELSE st

\* a tool_end that does not attach the duration
FoldToolEndNoDuration(st, lastId, decodedData) ==
  LET toolData == JSONParse(decodedData)
      hits == {i \in 1..Len(st.messages) :
                 st.messages[i].id = lastId /\ Len(st.messages[i].toolCalls) > 0}
      RefOf(i) == st.messages[i].toolCalls[Len(st.messages[i].toolCalls)]
  IN IF ~toolData.syntaxOk \/ hits = {} \/ toolData.isNull THEN st
     ELSE [st EXCEPT !.heap =
             [r \in 1..Len(st.heap) |->
                IF r \in {RefOf(i) : i \in hits}
                THEN [st.heap[r] EXCEPT !.status = "success",
                                        !.output = toolData.output]
                ELSE st.heap[r]]]

\* case 'tool_end': the last ToolCall object of the message is assigned in
\* place, before set() is called; a null toolData throws on toolData.output,
\* after the status has been assigned, and the catch skips the set()
FoldToolEnd(st, lastId, decodedData) ==
  LET toolData == JSONParse(decodedData)
      hits == {i \in 1..Len(st.messages) :
                 st.messages[i].id = lastId /\ Len(st.messages[i].toolCalls) > 0}
      RefOf(i) == st.messages[i].toolCalls[Len(st.messages[i].toolCalls)]
      first == CHOOSE i \in hits : \A j \in hits : i <= j
  IN IF ~toolData.syntaxOk \/ hits = {} THEN st
     ELSE IF toolData.isNull
          THEN [st EXCEPT !.heap[RefOf(first)].status = "success"]
          ELSE [st EXCEPT !.heap =
                  [r \in 1..Len(st.heap) |->
                     IF r \in {RefOf(i) : i \in hits}
                     THEN [st.heap[r] EXCEPT !.status = "success",
                                             !.output = toolData.output,
                                             !.duration = toolData.duration]
                     ELSE st.heap[r]]]

\* case 'citation'
FoldCitation(st, lastId, decodedData) ==
  LET citationData == JSONParse(decodedData)
      newCitation == [chunkId |-> citationData.chunk_id,
                      documentId |-> citationData.document_id,
                      score |-> citationData.score]
      F(m) == [m EXCEPT !.citations = Append(m.citations, newCitation)]
  IN IF ~citationData.syntaxOk \/ citationData.isNull THEN st
     ELSE [st EXCEPT !.messages = [i \in 1..Len(st.messages) |->
          IF st.messages[i].id = lastId THEN F(st.messages[i]) ELSE st.messages[i]]]

\* a done that takes the conversation id whatever the turn started with
DoneConversationIdAlways(cl, decodedData) ==
  LET doneData == JSONParse(decodedData)
  IN IF doneData.syntaxOk /\ ~doneData.isNull
        /\ Truthy(doneData.conversation_id)
     THEN doneData.conversation_id
     ELSE cl.newConversationId

\* case 'done', first part: the closure variable newConversationId
DoneConversationId(cl, decodedData) ==
  LET doneData == JSONParse(decodedData)
  IN IF doneData.syntaxOk /\ ~doneData.isNull
        /\ Truthy(doneData.conversation_id) /\ ~Truthy(cl.conversationId)
     THEN doneData.conversation_id
     ELSE cl.newConversationId

\* a done that leaves the message pending
FoldDoneKeepsPending(st, lastId, newConversationId, content) ==
  LET newConversation == [id |-> newConversationId[1], title |-> TitleOf(content)]
  IN IF Truthy(newConversationId)
     THEN [st EXCEPT !.currentConversationId = newConversationId,
                     !.conversations = <<newConversation>> \o st.conversations,
                     !.isStreaming = FALSE,
                     !.streamController = None]
     ELSE [st EXCEPT !.isStreaming = FALSE,
                     !.streamController = None]

\* case 'done', second part: the two set() calls
FoldDone(st, lastId, newConversationId, content) ==
  LET F(m) == [m EXCEPT !.isStreaming = FALSE]
      newConversation == [id |-> newConversationId[1], title |-> TitleOf(content)]
  IN IF Truthy(newConversationId)
     THEN [st EXCEPT !.currentConversationId = newConversationId,
                     !.conversations = <<newConversation>> \o st.conversations,
                     !.messages = [i \in 1..Len(st.messages) |->
          IF st.messages[i].id = lastId THEN F(st.messages[i]) ELSE st.messages[i]],
                     !.isStreaming = FALSE,
                     !.streamController = None]
     ELSE [st EXCEPT !.messages = [i \in 1..Len(st.messages) |->
          IF st.messages[i].id = lastId THEN F(st.messages[i]) ELSE st.messages[i]],
                     !.isStreaming = FALSE,
                     !.streamController = None]

\* a switch whose default folds the payload as text
FoldUnknownAsText(st, lastId, decodedData) ==
  LET F(m) == [m EXCEPT !.content = m.content \o decodedData]
  IN [st EXCEPT !.messages = [i \in 1..Len(st.messages) |->
          IF st.messages[i].id = lastId THEN F(st.messages[i]) ELSE st.messages[i]]]

\* the switch has no default and no case 'error': for any other event.type
\* no statement runs
FoldUnknown(st, lastId, decodedData) == st

\* The onMessage callback of sendMessage.  cl is the closure of the turn:
\* [conversationId (captured currentConversationId), content,
\*  newConversationId].  The result is the new store and the new value of
\* newConversationId.  No statement of the outer try block throws, so the
\* outer catch is never entered.
OnMessage(st, cl, event, time) ==
  LET currentMessages == st.messages
      lastMessage == currentMessages[Len(currentMessages)]
      decodedData == decodeBase64UTF8(event.data)
      nc == DoneConversationId(cl, decodedData)
  IN IF Len(currentMessages) = 0 \/ lastMessage.role # "assistant"
     THEN [st |-> st, newConversationId |-> cl.newConversationId]
     ELSE CASE event.type = "text" ->
                 [st |-> FoldText(st, lastMessage.id, decodedData),
                  newConversationId |-> cl.newConversationId]
            [] event.type = "tool_start" ->
                 [st |-> FoldToolStart(st, lastMessage.id, decodedData, time),
                  newConversationId |-> cl.newConversationId]
            [] event.type = "tool_end" ->
                 [st |-> FoldToolEnd(st, lastMessage.id, decodedData),
                  newConversationId |-> cl.newConversationId]
            [] event.type = "citation" ->
                 [st |-> FoldCitation(st, lastMessage.id, decodedData),
                  newConversationId |-> cl.newConversationId]
            [] event.type = "done" ->
                 [st |-> FoldDone(st, lastMessage.id, nc, cl.content),
                  newConversationId |-> nc]
            [] OTHER ->
                 [st |-> FoldUnknown(st, lastMessage.id, decodedData),
                  newConversationId |-> cl.newConversationId]

\* the onMessage calls of one chunk, in order
RECURSIVE FoldFrames(_, _, _, _)
FoldFrames(st, cl, frames, time) ==
  IF frames = <<>> THEN [st |-> st, newConversationId |-> cl.newConversationId]
  ELSE LET r == OnMessage(st, cl, Head(frames), time)
       IN FoldFrames(r.st, [cl EXCEPT !.newConversationId = r.newConversationId],
                     Tail(frames), time)

\* the onError callback of sendMessage
OnError(st, message) ==
  [st EXCEPT !.error = Some(message), !.isStreaming = FALSE,
             !.streamController = None]

\* the onComplete callback of sendMessage
OnComplete(st) ==
  IF st.isStreaming
  THEN [st EXCEPT !.isStreaming = FALSE, !.streamController = None]
  ELSE st

\* a catch that reports every rejection, the AbortError too
StreamChatCatchReportsAbort(st, name, message) == OnError(st, message)

\* the catch of streamChat: if (error.name !== 'AbortError') onError(error)
StreamChatCatch(st, name, message) ==
  IF name # "AbortError" THEN OnError(st, message) ELSE st

\* a stopStreaming that leaves the controller in the store
StopStreamingStoreKeepsController(st) ==
  LET F(m) == IF m.isStreaming THEN [m EXCEPT !.isStreaming = FALSE] ELSE m
  IN IF st.streamController # None
     THEN [st EXCEPT !.isStreaming = FALSE,
                     !.messages = [i \in 1..Len(st.messages) |-> F(st.messages[i])]]
     ELSE st

\* the store update of stopStreaming (the abort of the controller is part
\* of the action StopStreaming)
StopStreamingStore(st) ==
  LET F(m) == IF m.isStreaming THEN [m EXCEPT !.isStreaming = FALSE] ELSE m
  IN IF st.streamController # None
     THEN [st EXCEPT !.isStreaming = FALSE,
                     !.streamController = None,
                     !.messages = [i \in 1..Len(st.messages) |-> F(st.messages[i])]]
     ELSE st

(***************************************************************************)
(* Response bodies the backend may send (the inputs of the model).  The    *)
(* payloads are the base64 of                                              *)
(*   SGVs "Hel"   bG8= "lo"   aGk= "hi"   QQ== "A"   Qg== "B"               *)
(*   c2VhcmNo "search"   cGFydGlhbA== "partial"   e30= "{}"                 *)
(*   b29wcw== "oops"   Y29tcGxldGU= "complete"   cGluZw== "ping"            *)
(* and of the JSON texts of JSONParse; "!!!!" is not base64.               *)
(***************************************************************************)
\* text "Hel", text "lo", tool_start "search",
\* tool_end {"output":"ok","durationMs":120},
\* citation {"sourceId":"doc1","relevanceScore":0.8}, done {}
BodyScenarioMs ==
  "data: SGVs\n"
  \o "event: text\n"
  \o "data: bG8=\n"
  \o "event: tool_start\n"
  \o "data: c2VhcmNo\n"
  \o "event: tool_end\n"
  \o "data: eyJvdXRwdXQiOiJvayIsImR1cmF0aW9uTXMiOjEyMH0=\n"
  \o "event: citation\n"
  \o "data: eyJzb3VyY2VJZCI6ImRvYzEiLCJyZWxldmFuY2VTY29yZSI6MC44fQ==\n"
  \o "event: done\n"
  \o "data: e30=\n"

\* the same turn with the property names the handlers read:
\* tool_end {"output":"ok","duration":120},
\* citation {"chunk_id":"c1","document_id":"doc1","score":1}
BodyScenario ==
  "data: SGVs\n"
  \o "event: text\n"
  \o "data: bG8=\n"
  \o "event: tool_start\n"
  \o "data: c2VhcmNo\n"
  \o "event: tool_end\n"
  \o "data: eyJvdXRwdXQiOiJvayIsImR1cmF0aW9uIjoxMjB9\n"
  \o "event: citation\n"
  \o "data: eyJjaHVua19pZCI6ImMxIiwiZG9jdW1lbnRfaWQiOiJkb2MxIiwic2NvcmUiOjF9\n"
  \o "event: done\n"
  \o "data: e30=\n"

\* text "hi", done {"conversation_id":"abc"}
BodyNewSession ==
  "event: text\n"
  \o "data: aGk=\n"
  \o "event: done\n"
  \o "data: eyJjb252ZXJzYXRpb25faWQiOiJhYmMifQ==\n"

\* done {"conversation_id":"abc"}, text "hi", done {}
BodyDoneThenMore ==
  "event: done\n"
  \o "data: eyJjb252ZXJzYXRpb25faWQiOiJhYmMifQ==\n"
  \o "data: aGk=\n"
  \o "event: done\n"
  \o "data: e30=\n"

\* text "A", tool_end with a payload that is not base64, text "B"
BodyCorruptToolEnd ==
  "data: QQ==\n"
  \o "event: tool_end\n"
  \o "data: !!!!\n"
  \o "data: Qg==\n"

\* tool_start "search", text "A", tool_end "oops" (not JSON), text "B"
BodyBadJsonToolEnd ==
  "event: tool_start\n"
  \o "data: c2VhcmNo\n"
  \o "data: QQ==\n"
  \o "event: tool_end\n"
  \o "data: b29wcw==\n"
  \o "data: Qg==\n"

\* text "partial"
BodyPartial ==
  "event: text\n"
  \o "data: cGFydGlhbA==\n"

\* CR LF line ends, an empty line, a comment line, an empty data line, and
\* a last line without newline: text "hi", done "complete"
BodyPadded ==
  "event: text\r\n"
  \o "data: aGk=\r\n"
  \o "\r\n"
  \o ": keepalive\n"
  \o "data:\n"
  \o "event: done\n"
  \o "data: Y29tcGxldGU="

\* text "A", error "oops"
BodyErrorFrame ==
  "data: QQ==\n"
  \o "event: error\n"
  \o "data: b29wcw==\n"

\* a frame of the type "ping" that no case names, then text "A"
BodyUnknownType ==
  "event: ping\n"
  \o "data: cGluZw==\n"
  \o "data: QQ==\n"

\* tool_start "A", tool_start "B", tool_end {"output":"ok","duration":120},
\* tool_end {"output":"no","duration":7}
BodyTwoTools ==
  "event: tool_start\n"
  \o "data: QQ==\n"
  \o "event: tool_start\n"
  \o "data: Qg==\n"
  \o "event: tool_end\n"
  \o "data: eyJvdXRwdXQiOiJvayIsImR1cmF0aW9uIjoxMjB9\n"
  \o "event: tool_end\n"
  \o "data: eyJvdXRwdXQiOiJubyIsImR1cmF0aW9uIjo3fQ==\n"

\* text "A", a text frame and a tool_start frame whose payload is not base64
BodyRawPayloads ==
  "data: QQ==\n"
  \o "data: !!!!\n"
  \o "event: tool_start\n"
  \o "data: !!!!\n"

\* an event: line, a data: line without payload, a data: line with "{}"
BodyEmptyData ==
  "event: done\n"
  \o "data:\n"
  \o "data: e30=\n"

\* done {}, then text "hi" on the same stream
BodyDoneThenText ==
  "event: done\n"
  \o "data: e30=\n"
  \o "data: aGk=\n"

\* a comment line, an empty line, a data: line without payload and a
\* retry: line, then text "hi"
BodyKeepalive ==
  ": keepalive\n"
  \o "\n"
  \o "data:\n"
  \o "retry: 10\n"
  \o "data: aGk=\n"

\* tool_start "search", tool_end null (bnVsbA== is the base64 of "null")
BodyNullToolEnd ==
  "event: tool_start\n"
  \o "data: c2VhcmNo\n"
  \o "event: tool_end\n"
  \o "data: bnVsbA==\n"

\* done with the plain string "complete" as payload
BodyDonePlain ==
  "event: done\n"
  \o "data: Y29tcGxldGU=\n"

Bodies ==
  {BodyScenarioMs, BodyScenario, BodyNewSession,
   BodyDoneThenMore, BodyCorruptToolEnd, BodyBadJsonToolEnd,
   BodyPartial, BodyPadded, BodyErrorFrame, BodyUnknownType,
   BodyTwoTools, BodyRawPayloads, BodyEmptyData, BodyKeepalive,
   BodyNullToolEnd, BodyDonePlain}

\* the bodies of a run in which the user submits more than one turn
ShortBodies == {BodyDoneThenText}

(***************************************************************************)
(* Bounds                                                                  *)
(***************************************************************************)
\* a read delivers 1..MaxChunk bytes, or all the bytes that remain
MaxChunk == 3
\* Date.now() takes the values 0..MaxNow
MaxNow == 1
\* the user submits at most MaxTurns turns in a run of SpecTurns
MaxTurns == 2
\* at most MaxRequests requests are sent through apiClient in a run of
\* SpecRetry
MaxRequests == 2

\* what the user types
Contents == {"hello"}

(***************************************************************************)
(* State                                                                   *)
(***************************************************************************)
VARIABLES
  conversations,          \* store: Conversation[], each [id, title]
  currentConversationId,  \* store: None or Some(id)
  messages,               \* store: Message[]
  heap,                   \* the ToolCall objects referenced from messages
  isStreaming,            \* store
  error,                  \* store: None or Some(message)
  streamController,       \* store: None or Some(t), the AbortController of turn t
  streams,                \* one record per streamChat call, see SendMessage;
                          \* response is the response of the fetch;
                          \* delivered (the onMessage calls so far), midLine
                          \* (a read ended inside a line or between an
                          \* event: line and its data: line), stopRequested
                          \* (stopStreaming was called for the turn) and
                          \* startStore (the store when the stream was
                          \* opened) record the history of the stream
  now,                    \* the last value read from Date.now()
  turnsLeft,              \* number of turns the user may still submit
  api                     \* apiClient: localStorage tokens, window.location
                          \* and one record per request sent through the
                          \* client, see ApiRequest

storeVars == <<conversations, currentConversationId, messages, heap,
               isStreaming, error, streamController>>
vars == <<conversations, currentConversationId, messages, heap,
          isStreaming, error, streamController, streams, now, turnsLeft, api>>

Store ==
  [messages |-> messages, heap |-> heap, conversations |-> conversations,
   currentConversationId |-> currentConversationId,
   isStreaming |-> isStreaming, error |-> error,
   streamController |-> streamController]

\* the store after the step
StoreNext ==
  [messages |-> messages', heap |-> heap', conversations |-> conversations',
   currentConversationId |-> currentConversationId',
   isStreaming |-> isStreaming', error |-> error',
   streamController |-> streamController']

SetStore(st) ==
  /\ messages' = st.messages
  /\ heap' = st.heap
  /\ conversations' = st.conversations
  /\ currentConversationId' = st.currentConversationId
  /\ isStreaming' = st.isStreaming
  /\ error' = st.error
  /\ streamController' = st.streamController

Turns == 1..Len(streams)

\* the closure of the callbacks of turn t
ClosureOf(s) ==
  [conversationId |-> s.conversationId, content |-> s.content,
   newConversationId |-> s.newConversationId]

\* no request has been sent through apiClient and no token is stored
ApiIdle ==
  [accessToken |-> None, refreshToken |-> None, location |-> "/",
   requests |-> <<>>]

\* a conversation created or listed before the turn
ExistingConversation == [id |-> "c1", title |-> "New Chat"]

\* The store as constructed (no conversation), after loadConversations
\* (a list, none selected) or after createConversation (one selected, no
\* message); no turn has been submitted.
InitStore ==
  /\ messages = <<>>
  /\ heap = <<>>
  /\ isStreaming = FALSE
  /\ error = None
  /\ streamController = None
  /\ \/ conversations = <<>> /\ currentConversationId = None
     \/ conversations = <<ExistingConversation>> /\ currentConversationId = None
     \/ /\ conversations = <<ExistingConversation>>
        /\ currentConversationId = Some(ExistingConversation.id)

Init ==
  /\ InitStore
  /\ streams = <<>>
  /\ now = 0
  /\ turnsLeft = 1
  /\ api = ApiIdle

(***************************************************************************)
(* Actions                                                                 *)
(***************************************************************************)
\* sendMessage(content): the two messages, the streamChat call (which only
\* creates the controller and starts the fetch) and set({streamController})
\* run in one synchronous block.  body is the response the backend will
\* send, time the value of Date.now().
SendMessage(content, body, time) ==
  LET t == Len(streams) + 1
      userMessage == [id |-> <<"temp", time>>, role |-> "user",
                      content |-> content, isStreaming |-> FALSE,
                      toolCalls |-> <<>>, citations |-> <<>>]
      assistantMessage == [id |-> <<"temp-assistant", time>>,
                           role |-> "assistant", content |-> "",
                           isStreaming |-> TRUE,
                           toolCalls |-> <<>>, citations |-> <<>>]
  IN /\ messages' = messages \o <<userMessage, assistantMessage>>
     /\ isStreaming' = TRUE
     /\ error' = None
     /\ streamController' = Some(t)
     /\ streams' = Append(streams,
          [body |-> body, phase |-> "fetching", pos |-> 0, buffer |-> "",
           currentEventType |-> "text", aborted |-> FALSE,
           response |-> None,
           conversationId |-> currentConversationId, content |-> content,
           newConversationId |-> None,
           assistantId |-> assistantMessage.id,
           delivered |-> <<>>, midLine |-> FALSE, stopRequested |-> FALSE,
           startStore |-> [Store EXCEPT
                             !.messages = messages \o <<userMessage, assistantMessage>>,
                             !.isStreaming = TRUE,
                             !.error = None,
                             !.streamController = Some(t)]])
     /\ now' = time
     /\ UNCHANGED <<conversations, currentConversationId, heap, api>>

\* the responses of a run: every body in a run of one turn, the short ones
\* in a run of several turns
BodiesOffered ==
  IF turnsLeft + Len(streams) > 1 THEN ShortBodies ELSE Bodies

\* InputArea.handleSubmit: nothing is sent while the store is streaming
HandleSubmit ==
  /\ ~isStreaming
  /\ turnsLeft > 0
  /\ turnsLeft' = turnsLeft - 1
  /\ \E content \in Contents, body \in BodiesOffered, time \in now..MaxNow :
       SendMessage(content, body, time)

\* the responses of fetch: [ok, status, text (the body of a response that
\* is not ok, as response.text() gives it), hasBody (response.body is set)]
OkResponse ==
  [ok |-> TRUE, status |-> "200", text |-> "", hasBody |-> TRUE]

NoBodyResponse ==
  [ok |-> TRUE, status |-> "200", text |-> "", hasBody |-> FALSE]

ErrorResponse ==
  [ok |-> FALSE, status |-> "500", text |-> "Internal Server Error",
   hasBody |-> TRUE]

\* an Error whose message leaves out the text of the response
ThrownMessageStatusOnly(response) ==
  IF ~response.ok THEN "HTTP " \o response.status ELSE "No response body"

\* the message of the Error the then-callback throws before the read loop
ThrownMessage(response) ==
  IF ~response.ok
  THEN "HTTP " \o response.status \o ": " \o response.text
  ELSE "No response body"

\* fetch resolves with a 2xx response that has a body: the read loop starts
Respond(t) ==
  /\ streams[t].phase = "fetching"
  /\ ~streams[t].aborted
  /\ streams' = [streams EXCEPT ![t].phase = "reading",
                                ![t].response = Some(OkResponse)]
  /\ UNCHANGED <<storeVars, now, turnsLeft, api>>

\* fetch resolves with a non-2xx response, or without a body: the thrown
\* Error reaches the catch of streamChat, which calls onError
RespondError(t) ==
  /\ streams[t].phase = "fetching"
  /\ ~streams[t].aborted
  /\ \E response \in {ErrorResponse, NoBodyResponse} :
       /\ SetStore(StreamChatCatch(Store, "Error", ThrownMessage(response)))
       /\ streams' = [streams EXCEPT ![t].phase = "failed",
                                     ![t].response = Some(response)]
  /\ UNCHANGED <<now, turnsLeft, api>>

\* fetch or reader.read() rejects with an error that is not an AbortError
\* (the connection drops)
NetworkError(t) ==
  /\ streams[t].phase \in {"fetching", "reading"}
  /\ ~streams[t].aborted
  /\ SetStore(StreamChatCatch(Store, "TypeError", "network error"))
  /\ streams' = [streams EXCEPT ![t].phase = "failed"]
  /\ UNCHANGED <<now, turnsLeft, api>>

\* reader.read() resolves with n bytes; they are decoded and every frame of
\* the complete lines is passed to onMessage before the next read (one
\* synchronous block: no other action runs inside it).  A read of an aborted
\* fetch does not resolve, it rejects (AbortRejected), and the abort discards
\* what the response stream had queued.  The clock is read by the fold of a
\* tool_start frame only.
ReadChunk(t, n, time) ==
  LET s == streams[t]
      d == DecodeChunk(s.buffer, s.currentEventType,
                       SubSeq(s.body, s.pos + 1, s.pos + n))
      r == FoldFrames(Store, ClosureOf(s), d.frames, time)
  IN /\ s.phase = "reading"
     /\ ~s.aborted
     /\ s.pos + n <= Len(s.body)
     /\ time # now => \E i \in 1..Len(d.frames) : d.frames[i].type = "tool_start"
     /\ SetStore(r.st)
     /\ streams' = [streams EXCEPT ![t].pos = s.pos + n,
                                   ![t].buffer = d.buffer,
                                   ![t].currentEventType = d.currentEventType,
                                   ![t].newConversationId = r.newConversationId,
                                   ![t].delivered = s.delivered \o d.frames,
                                   ![t].midLine = s.midLine \/ d.buffer # ""
                                                  \/ d.currentEventType # "text"]
     /\ now' = time
     /\ UNCHANGED <<turnsLeft, api>>

\* reader.read() resolves with done: the loop ends and onComplete is called
ReadDone(t) ==
  /\ streams[t].phase = "reading"
  /\ ~streams[t].aborted
  /\ streams[t].pos = Len(streams[t].body)
  /\ SetStore(OnComplete(Store))
  /\ streams' = [streams EXCEPT ![t].phase = "complete"]
  /\ UNCHANGED <<now, turnsLeft, api>>

\* after controller.abort() the pending fetch or read rejects with an
\* AbortError, which the catch of streamChat swallows
AbortRejected(t) ==
  /\ streams[t].phase \in {"fetching", "reading"}
  /\ streams[t].aborted
  /\ SetStore(StreamChatCatch(Store, "AbortError", "The operation was aborted."))
  /\ streams' = [streams EXCEPT ![t].phase = "aborted"]
  /\ UNCHANGED <<now, turnsLeft, api>>

\* a stopStreaming that does not call abort()
StopStreamingAbortsNothing(st) == None

\* the controller stopStreaming aborts
StopStreamingAborts(st) == st.streamController

\* stopStreaming(): with a controller in the store, abort it and update the
\* store; the call is then a call for the turn of that controller
StopStreaming ==
  /\ SetStore(StopStreamingStore(Store))
  /\ streams' = [t \in Turns |->
                   [streams[t] EXCEPT
                      !.aborted = @ \/ StopStreamingAborts(Store) = Some(t),
                      !.stopRequested = @ \/ streamController = Some(t)]]
  /\ UNCHANGED <<now, turnsLeft, api>>

Next ==
  \/ HandleSubmit
  \/ \E t \in Turns : Respond(t)
  \/ \E t \in Turns : RespondError(t)
  \/ \E t \in Turns : NetworkError(t)
  \/ \E t \in Turns, time \in now..MaxNow :
       \E n \in (1..MaxChunk) \cup {Len(streams[t].body) - streams[t].pos} :
         n > 0 /\ ReadChunk(t, n, time)
  \/ \E t \in Turns : ReadDone(t)
  \/ \E t \in Turns : AbortRejected(t)
  \/ StopStreaming

Spec == Init /\ [][Next]_vars

\* runs in which the user submits up to MaxTurns turns, each through
\* handleSubmit
InitTurns ==
  /\ InitStore
  /\ streams = <<>>
  /\ now = 0
  /\ turnsLeft = MaxTurns
  /\ api = ApiIdle

SpecTurns == InitTurns /\ [][Next]_vars

(***************************************************************************)
(* apiClient (lib/api/presentations.ts): the request interceptor           *)
(* addAuthToken and the response interceptor with the token refresh.       *)
(* api.requests[k] is one request of a caller:                             *)
(*   config    the request config: the _retry flag, the Authorization      *)
(*             header (a token)                                            *)
(*   phase     "sent", "refreshing" (the interceptor awaits axios.post),   *)
(*             "resolved" or "rejected" (the promise of the caller)        *)
(*   error     the status of the error the interceptor is handling         *)
(*   rejected  the status of the error the caller's promise rejects with   *)
(* sends, refreshes, lastStatus and refreshFailed record the history of    *)
(* the request: how often it was sent, how often the refresh endpoint was  *)
(* called for it, the status of its last response, whether its refresh     *)
(* call failed.                                                            *)
(***************************************************************************)
\* the response statuses of the backend
Statuses == {200, 401, 500}

\* what localStorage holds when the first request is sent
StoredTokens ==
  {[accessToken |-> None, refreshToken |-> None],
   [accessToken |-> Some("a0"), refreshToken |-> None],
   [accessToken |-> Some("a0"), refreshToken |-> Some("r0")]}

\* response.data of a refresh call that succeeds
IssuedTokens ==
  {[access_token |-> "a1", refresh_token |-> "r1"],
   [access_token |-> "a2", refresh_token |-> "r2"]}

\* addAuthToken: the stored access token, when there is one, becomes the
\* Authorization header
addAuthToken(config, accessToken) ==
  IF accessToken # None
  THEN [config EXCEPT !.Authorization = accessToken]
  ELSE config

\* a guard that does not look at the _retry flag
ShouldRefreshEveryTime(status, config) == status = 401

\* error.response?.status === 401 && !originalRequest._retry
ShouldRefresh(status, config) == status = 401 /\ ~config._retry

\* a caller sends a request through apiClient
ApiRequest ==
  /\ Len(api.requests) < MaxRequests
  /\ api' = [api EXCEPT !.requests = Append(@,
        [config |-> addAuthToken([_retry |-> FALSE, Authorization |-> None],
                                 api.accessToken),
         phase |-> "sent", error |-> None, rejected |-> None,
         sends |-> 1, refreshes |-> 0, lastStatus |-> 0,
         refreshFailed |-> FALSE])]
  /\ UNCHANGED <<storeVars, streams, now, turnsLeft>>

\* the response of request k arrives.  A 2xx response resolves the promise;
\* any other runs the error interceptor up to its first await or its end.
ApiResponse(k, status) ==
  LET r == api.requests[k]
      originalRequest == [r.config EXCEPT !._retry = TRUE]
  IN /\ r.phase = "sent"
     /\ api' =
          IF status = 200
          THEN [api EXCEPT !.requests[k].phase = "resolved",
                           !.requests[k].lastStatus = status]
          ELSE IF ShouldRefresh(status, r.config)
               THEN IF api.refreshToken # None
                    THEN [api EXCEPT !.requests[k].config = originalRequest,
                                     !.requests[k].phase = "refreshing",
                                     !.requests[k].error = Some(status),
                                     !.requests[k].refreshes = @ + 1,
                                     !.requests[k].lastStatus = status]
                    ELSE [api EXCEPT !.requests[k].config = originalRequest,
                                     !.requests[k].phase = "rejected",
                                     !.requests[k].rejected = Some(status),
                                     !.requests[k].lastStatus = status]
               ELSE [api EXCEPT !.requests[k].phase = "rejected",
                                !.requests[k].rejected = Some(status),
                                !.requests[k].lastStatus = status]
     /\ UNCHANGED <<storeVars, streams, now, turnsLeft>>

\* the refresh call of request k succeeds: the tokens are stored, the
\* header is set and the request is sent again through apiClient (and
\* through addAuthToken)
RefreshSucceeds(k, data) ==
  LET r == api.requests[k]
  IN /\ r.phase = "refreshing"
     /\ api' = [api EXCEPT
          !.accessToken = Some(data.access_token),
          !.refreshToken = Some(data.refresh_token),
          !.requests[k].config =
             addAuthToken([r.config EXCEPT !.Authorization = Some(data.access_token)],
                          Some(data.access_token)),
          !.requests[k].phase = "sent",
          !.requests[k].sends = @ + 1]
     /\ UNCHANGED <<storeVars, streams, now, turnsLeft>>

\* the refresh call of request k fails: the catch removes both tokens and
\* sets window.location, then the interceptor rejects with the error it
\* was called with
RefreshFails(k) ==
  LET r == api.requests[k]
  IN /\ r.phase = "refreshing"
     /\ api' = [api EXCEPT
          !.accessToken = None,
          !.refreshToken = None,
          !.location = "/login",
          !.requests[k].phase = "rejected",
          !.requests[k].rejected = r.error,
          !.requests[k].refreshFailed = TRUE]
     /\ UNCHANGED <<storeVars, streams, now, turnsLeft>>

NextRetry ==
  \/ ApiRequest
  \/ \E k \in 1..Len(api.requests), status \in Statuses : ApiResponse(k, status)
  \/ \E k \in 1..Len(api.requests), data \in IssuedTokens : RefreshSucceeds(k, data)
  \/ \E k \in 1..Len(api.requests) : RefreshFails(k)

\* the chat store as constructed, no turn submitted; any stored tokens
InitRetry ==
  /\ InitStore
  /\ streams = <<>>
  /\ now = 0
  /\ turnsLeft = 0
  /\ \E tokens \in StoredTokens :
       api = [ApiIdle EXCEPT !.accessToken = tokens.accessToken,
                             !.refreshToken = tokens.refreshToken]

SpecRetry == InitRetry /\ [][NextRetry]_vars

(***************************************************************************)
(* Properties                                                              *)
(***************************************************************************)
\* the messages that carry the id of the placeholder of turn t
PlaceholdersOf(t) ==
  {i \in 1..Len(messages) : messages[i].id = streams[t].assistantId}

\* a read of the stream of turn t passed frames to onMessage in this step
FoldStep(t) == Len(streams'[t].delivered) > Len(streams[t].delivered)

\* the frames of a body that arrives in one chunk
FramesOf(body) == DecodeChunk("", "text", body).frames

\* the store without the ids of the ToolCall objects (they hold the time)
View(st) ==
  [st EXCEPT !.heap = [r \in 1..Len(st.heap) |->
     [name |-> st.heap[r].name, status |-> st.heap[r].status,
      output |-> st.heap[r].output, duration |-> st.heap[r].duration]]]

\* the store after a turn whose body arrived in one chunk and ended
OneChunkStore(s) ==
  OnComplete(FoldFrames(s.startStore,
                        [conversationId |-> s.conversationId,
                         content |-> s.content, newConversationId |-> None],
                        FramesOf(s.body), 0).st)

\* C1 (append-only): a step in which frames of a turn are folded never makes
\* the content of the placeholder message shorter, nor its list of tool
\* calls, nor its list of citations.
C1_AppendOnly ==
  [][\A t \in Turns : FoldStep(t) =>
       \A i \in PlaceholdersOf(t) :
         /\ Len(messages') >= i
         /\ messages'[i].id = messages[i].id
         /\ Len(messages'[i].content) >= Len(messages[i].content)
         /\ Len(messages'[i].toolCalls) >= Len(messages[i].toolCalls)
         /\ Len(messages'[i].citations) >= Len(messages[i].citations)]_vars

\* text, a tool call and a citation have been folded into the placeholder
C1_Witness ==
  \E t \in Turns : \E i \in PlaceholdersOf(t) :
    /\ messages[i].content = "Hello"
    /\ Len(messages[i].toolCalls) = 1
    /\ Len(messages[i].citations) = 1

\* C2 (pending monotonicity): a placeholder message whose isStreaming is
\* false never has it true again, whatever the step (frames, stopStreaming,
\* onError, onComplete); so it goes from true to false at most once.
C2_PendingMonotone ==
  [][\A t \in Turns : \A i \in PlaceholdersOf(t) :
       ~messages[i].isStreaming =>
          /\ Len(messages') >= i
          /\ messages'[i].id = messages[i].id
          /\ ~messages'[i].isStreaming]_vars

\* the placeholder was finalized by a done frame and frames came after it
C2_Witness ==
  \E t \in Turns : \E i \in PlaceholdersOf(t) :
    /\ ~messages[i].isStreaming
    /\ \E j \in 1..Len(streams[t].delivered) :
         /\ streams[t].delivered[j].type = "done"
         /\ j < Len(streams[t].delivered)

\* C3 (chunk-boundary independence): when the body has been read to its end,
\* however it was cut into chunks, the frames passed to onMessage are those
\* of the body read as one chunk, and the store is the one that folding
\* these frames gives.
C3_ChunkIndependence ==
  \A t \in Turns : streams[t].phase = "complete" =>
    /\ streams[t].delivered = FramesOf(streams[t].body)
    /\ View(Store) = View(OneChunkStore(streams[t]))

\* a body of six frames was read to its end, cut inside a line or between an
\* event: line and its data: line
C3_Witness ==
  \E t \in Turns :
    /\ streams[t].phase = "complete"
    /\ streams[t].midLine
    /\ Len(streams[t].delivered) = 6

\* C4 (malformed-frame tolerance): a tool_end frame whose payload is not
\* base64, or not JSON, between two text frames "A" and "B": once the three
\* frames are folded the content of the placeholder is "AB".
C4_MalformedToolEnd ==
  \A t \in Turns :
    (/\ streams[t].body \in {BodyCorruptToolEnd, BodyBadJsonToolEnd}
     /\ streams[t].delivered = FramesOf(streams[t].body)) =>
       \A i \in PlaceholdersOf(t) : messages[i].content = "AB"

\* both bodies have been folded to their last frame
C4_Witness ==
  \E t \in Turns : \E i \in PlaceholdersOf(t) :
    /\ streams[t].body = BodyCorruptToolEnd
    /\ \E j \in 1..Len(streams[t].delivered) :
         streams[t].delivered[j] = [type |-> "tool_end", data |-> "!!!!"]
    /\ messages[i].content = "AB"

\* the conversation ids carried by the done frames of a frame sequence
DoneIdsOf(frames) ==
  {JSONParse(decodeBase64UTF8(frames[i].data)).conversation_id[1] :
     i \in {j \in 1..Len(frames) :
              /\ frames[j].type = "done"
              /\ JSONParse(decodeBase64UTF8(frames[j].data)).syntaxOk
              /\ Truthy(JSONParse(decodeBase64UTF8(frames[j].data)).conversation_id)}}

\* C5 (session learning exactly-once): a turn started without a conversation
\* id whose stream carried a conversation id in a done frame and ended: the
\* conversations list is the list at the start of the turn with one entry
\* in front, that entry has the new id, and the new id is the current one.
C5_SessionLearnedOnce ==
  \A t \in Turns :
    (/\ streams[t].conversationId = None
     /\ streams[t].phase = "complete"
     /\ DoneIdsOf(streams[t].delivered) # {}) =>
       /\ Len(conversations) = Len(streams[t].startStore.conversations) + 1
       /\ Tail(conversations) = streams[t].startStore.conversations
       /\ conversations[1].id \in DoneIdsOf(streams[t].delivered)
       /\ currentConversationId = Some(conversations[1].id)

\* stopStreaming was called for turn t in this step
StopStep(t) == ~streams[t].stopRequested /\ streams'[t].stopRequested

\* C6 (cancellation idempotence): in the store a call of stopStreaming
\* leaves, another call of stopStreaming changes nothing and aborts nothing.
C6_StopIdempotent ==
  [][(\E t \in Turns : StopStep(t)) =>
       /\ StopStreamingStore(StoreNext) = StoreNext
       /\ StopStreamingAborts(StoreNext) = None]_vars

\* stopStreaming has aborted a stream that had folded frames
C6_Witness ==
  \E t \in Turns : \E i \in PlaceholdersOf(t) :
    /\ streams[t].stopRequested
    /\ streams[t].aborted
    /\ messages[i].content # ""
    /\ ~messages[i].isStreaming

\* the final message of the scenario, with the given duration of the tool
ScenarioResult(t, duration) ==
  /\ PlaceholdersOf(t) # {}
  /\ \A i \in PlaceholdersOf(t) :
       /\ messages[i].content = "Hello"
       /\ Len(messages[i].toolCalls) = 1
       /\ heap[messages[i].toolCalls[1]].name = "search"
       /\ heap[messages[i].toolCalls[1]].status = "success"
       /\ heap[messages[i].toolCalls[1]].output = Some("ok")
       /\ heap[messages[i].toolCalls[1]].duration = duration
       /\ Len(messages[i].citations) = 1
       /\ ~messages[i].isStreaming
  /\ conversations = streams[t].startStore.conversations
  /\ currentConversationId = streams[t].startStore.currentConversationId

\* the scenario has run to its end on an existing session
ScenarioDone(t, body) ==
  /\ streams[t].body = body
  /\ streams[t].conversationId # None
  /\ streams[t].phase = "complete"

\* C7 as stated: the scenario whose tool_end payload is
\* {"output":"ok","durationMs":120} ends with a tool call of duration 120.
C7_ScenarioAsStated ==
  \A t \in Turns : ScenarioDone(t, BodyScenarioMs) => ScenarioResult(t, Some(120))

\* C7 (amended): the scenario on an existing session ends with content
\* "Hello", one tool call "search" with status success and output "ok", one
\* citation, the message not pending and the conversations untouched; the
\* duration of the tool call is 120 when the tool_end payload is
\* {"output":"ok","duration":120} and is not set when the payload names
\* the property durationMs.
C7_Scenario ==
  \A t \in Turns :
    /\ ScenarioDone(t, BodyScenario) => ScenarioResult(t, Some(120))
    /\ ScenarioDone(t, BodyScenarioMs) => ScenarioResult(t, None)

\* the scenario with the duration property has run to its end
C7_Witness ==
  \E t \in Turns : ScenarioDone(t, BodyScenario) /\ ScenarioResult(t, Some(120))

\* C8 (transport failure finalizes the message): the stream delivered text
\* "partial" and the connection dropped: the placeholder has content
\* "partial" and is not pending, the store has the error and is not
\* streaming.
C8_FailureFinalizes ==
  \A t \in Turns :
    (/\ streams[t].body = BodyPartial
     /\ streams[t].phase = "failed"
     /\ streams[t].delivered = FramesOf(BodyPartial)) =>
       /\ \A i \in PlaceholdersOf(t) :
            messages[i].content = "partial" /\ ~messages[i].isStreaming
       /\ error # None
       /\ ~isStreaming

\* a done frame of the stream of turn t has been passed to onMessage
DoneDelivered(t) ==
  \E j \in 1..Len(streams[t].delivered) : streams[t].delivered[j].type = "done"

\* C9 (terminal states are absorbing): once a done frame of a stream has
\* been folded, or the turn has failed, a later read of the same stream
\* changes nothing in the store.
C9_TerminalAbsorbing ==
  [][\A t \in Turns :
       ((DoneDelivered(t) \/ streams[t].phase = "failed")
          /\ streams'[t].pos # streams[t].pos) =>
            UNCHANGED storeVars]_vars

\* C10 (no fold after abort): once stopStreaming has been called for a
\* turn, no byte of its stream is decoded and no frame of it is passed to
\* onMessage, whatever was read before and whatever is left in the buffer.
C10_NoFoldAfterAbort ==
  [][\A t \in Turns : streams[t].stopRequested =>
       /\ streams'[t].delivered = streams[t].delivered
       /\ streams'[t].pos = streams[t].pos
       /\ streams'[t].buffer = streams[t].buffer]_vars

\* a stream was aborted after frames were folded, with the bytes of an
\* unfinished line in the buffer and bytes of the body unread
C10_Witness ==
  \E t \in Turns :
    /\ streams[t].stopRequested
    /\ streams[t].phase = "aborted"
    /\ Len(streams[t].delivered) > 0
    /\ streams[t].buffer # ""
    /\ streams[t].pos < Len(streams[t].body)

\* C11 (cancel keeps what was folded): a call of stopStreaming for a turn
\* sets isStreaming of the placeholder of the turn to false and changes
\* nothing else: not its content, tool calls or citations, no ToolCall
\* object, and no other message.
C11_CancelKeepsFolded ==
  [][\A t \in Turns : StopStep(t) =>
       /\ Len(messages') = Len(messages)
       /\ heap' = heap
       /\ \A i \in 1..Len(messages) :
            messages'[i] = IF i \in PlaceholdersOf(t)
                           THEN [messages[i] EXCEPT !.isStreaming = FALSE]
                           ELSE messages[i]]_vars

\* the frames of type error passed to onMessage for turn t
ErrorFramesOf(t) ==
  {j \in 1..Len(streams[t].delivered) : streams[t].delivered[j].type = "error"}

\* C12 (an error frame fails the turn): once a frame of type error has been
\* passed to onMessage, the store error is the decoded payload of the frame
\* and the store is not streaming.
C12_ErrorFrameFails ==
  \A t \in Turns : \A j \in ErrorFramesOf(t) :
    /\ error = Some(decodeBase64UTF8(streams[t].delivered[j].data))
    /\ ~isStreaming

\* a read of the stream of turn t passed exactly one frame to onMessage
OneFrameStep(t) == Len(streams'[t].delivered) = Len(streams[t].delivered) + 1

\* the last frame passed to onMessage for turn t in this step
FrameOfStep(t) == streams'[t].delivered[Len(streams'[t].delivered)]

\* the messages after the step are those before it, with data appended to
\* the content of the placeholder of turn t
ContentAppended(t, data) ==
  /\ Len(messages') = Len(messages)
  /\ \A i \in 1..Len(messages) :
       messages'[i] = IF i \in PlaceholdersOf(t)
                      THEN [messages[i] EXCEPT !.content = @ \o data]
                      ELSE messages[i]

\* C13 as stated: a frame of any declared type whose payload is not base64
\* is folded as text: the raw payload is appended to the content of the
\* placeholder and nothing else changes.
C13_DecodeFailureAsText ==
  [][\A t \in Turns :
       (OneFrameStep(t) /\ ~AtobOk(FrameOfStep(t).data)) =>
          /\ ContentAppended(t, FrameOfStep(t).data)
          /\ heap' = heap
          /\ isStreaming' = isStreaming]_vars

\* C13 (amended): a frame of type text whose payload is not base64 has its
\* raw payload appended to the content of the placeholder, and nothing else
\* changes; a frame of another declared type whose payload is not base64 is
\* not folded as text: the content of every message stays as it was.
C13_RawTextOnly ==
  [][\A t \in Turns :
       (OneFrameStep(t) /\ ~AtobOk(FrameOfStep(t).data)) =>
          IF FrameOfStep(t).type = "text"
          THEN /\ ContentAppended(t, FrameOfStep(t).data)
               /\ heap' = heap
               /\ isStreaming' = isStreaming
          ELSE /\ Len(messages') = Len(messages)
               /\ \A i \in 1..Len(messages) :
                    messages'[i].content = messages[i].content]_vars

\* a text frame and a tool_start frame with the payload "!!!!" were folded:
\* the raw payload is in the content and is the name of a tool call
C13_Witness ==
  \E t \in Turns : \E i \in PlaceholdersOf(t) :
    /\ streams[t].body = BodyRawPayloads
    /\ Len(streams[t].delivered) = 3
    /\ messages[i].content = "A!!!!"
    /\ Len(messages[i].toolCalls) = 1
    /\ heap[messages[i].toolCalls[1]].name = "!!!!"

\* C14 (an existing session is never registered again): while frames of a
\* turn that started with a currentConversationId are folded, done frames
\* with a conversation id included, the conversations list and
\* currentConversationId stay as they are.
C14_ExistingSessionKept ==
  [][\A t \in Turns :
       (streams[t].conversationId # None /\ FoldStep(t)) =>
          /\ conversations' = conversations
          /\ currentConversationId' = currentConversationId]_vars

\* a turn on an existing session has folded a done frame that carries a
\* conversation id, and the store still has the session it started with
C14_Witness ==
  \E t \in Turns :
    /\ streams[t].conversationId = Some(ExistingConversation.id)
    /\ DoneIdsOf(streams[t].delivered) # {}
    /\ conversations = <<ExistingConversation>>
    /\ currentConversationId = Some(ExistingConversation.id)

\* the ToolCall objects of the placeholder of turn t that are running
RunningRefs(t) ==
  {r \in 1..Len(heap) :
     /\ heap[r].status = "running"
     /\ \E i \in PlaceholdersOf(t) : \E k \in 1..Len(messages[i].toolCalls) :
          messages[i].toolCalls[k] = r}

\* C15 (tool_end matching): a tool_end frame with a JSON object as payload
\* sets the most recently added running tool call of the placeholder to
\* success with the output and duration of the frame and changes no other
\* tool call; without a running tool call it changes none.
C15_ToolEndMatching ==
  [][\A t \in Turns :
       (/\ OneFrameStep(t)
        /\ FrameOfStep(t).type = "tool_end"
        /\ JSONParse(decodeBase64UTF8(FrameOfStep(t).data)).syntaxOk
        /\ ~JSONParse(decodeBase64UTF8(FrameOfStep(t).data)).isNull) =>
          LET toolData == JSONParse(decodeBase64UTF8(FrameOfStep(t).data))
              running == RunningRefs(t)
              target == CHOOSE r \in running : \A q \in running : q <= r
          IN /\ Len(heap') = Len(heap)
             /\ \A r \in 1..Len(heap) :
                  heap'[r] = IF running # {} /\ r = target
                             THEN [heap[r] EXCEPT !.status = "success",
                                                  !.output = toolData.output,
                                                  !.duration = toolData.duration]
                             ELSE heap[r]]_vars

\* the outcomes turn t has had: completed (a done frame was folded or
\* onComplete was called), failed (onError was called), cancelled
\* (stopStreaming was called for the turn)
OutcomesOf(t) ==
  (IF DoneDelivered(t) \/ streams[t].phase = "complete" THEN {"completed"} ELSE {})
    \cup (IF streams[t].phase = "failed" THEN {"failed"} ELSE {})
    \cup (IF streams[t].stopRequested THEN {"cancelled"} ELSE {})

\* C16 (one outcome per turn): no turn has two outcomes: a turn completed
\* by a done frame is not failed afterwards with the store error set, and a
\* cancelled turn is neither completed nor failed afterwards.
C16_OneOutcome ==
  \A t \in Turns :
    /\ Cardinality(OutcomesOf(t)) <= 1
    /\ DoneDelivered(t) => error = None

\* the frame types the onMessage contract names
KnownTypes == {"text", "tool_start", "tool_end", "citation", "done", "error"}

IsKnownFrame(f) == f.type \in KnownTypes

\* the frames passed to onMessage for turn t in this step
FramesOfStep(t) ==
  SubSeq(streams'[t].delivered, Len(streams[t].delivered) + 1,
         Len(streams'[t].delivered))

\* C17 (unknown frame types are ignored): the store after a read is the
\* store that folding the frames of the read without those of unknown type
\* gives: a frame of unknown type changes nothing in the store and the
\* frames after it are folded as if it had not been there.
C17_UnknownIgnored ==
  [][\A t \in Turns : FoldStep(t) =>
       StoreNext = FoldFrames(Store, ClosureOf(streams[t]),
                              SelectSeq(FramesOfStep(t), IsKnownFrame),
                              now').st]_vars

\* a frame of type "ping" was passed to onMessage, then a text frame: the
\* content is the text of the second frame alone
C17_Witness ==
  \E t \in Turns : \E i \in PlaceholdersOf(t) :
    /\ Len(streams[t].delivered) = 2
    /\ streams[t].delivered[1].type = "ping"
    /\ messages[i].content = "A"
    /\ messages[i].toolCalls = <<>>
    /\ messages[i].isStreaming

\* the stream of turn t is open: its fetch or its read loop is pending and
\* was not aborted, so it can still call onMessage, onError or onComplete
StreamOpen(t) ==
  streams[t].phase \in {"fetching", "reading"} /\ ~streams[t].aborted

\* C18 (at most one turn in flight): with every send made through
\* handleSubmit, the streams of two turns are never open at the same time.
C18_OneTurnInFlight ==
  \A t1, t2 \in Turns : (StreamOpen(t1) /\ StreamOpen(t2)) => t1 = t2

\* C19 (cancellation is not an error): the call of stopStreaming for a turn
\* leaves the store error as it was, and so does every later step of the
\* stream of that turn: the rejection of the aborted fetch or read changes
\* nothing in the store (neither onError nor onComplete is called) and the
\* stream ends neither complete nor failed.
C19_CancelNotError ==
  [][\A t \in Turns :
       /\ StopStep(t) => error' = error
       /\ (streams[t].stopRequested /\ streams'[t] # streams[t]) =>
            /\ UNCHANGED storeVars
            /\ streams'[t].phase \notin {"complete", "failed"}]_vars

\* the fetch or read of a cancelled turn has rejected and the store has no
\* error and is not streaming
C19_Witness ==
  \E t \in Turns :
    /\ streams[t].stopRequested
    /\ streams[t].phase = "aborted"
    /\ error = None
    /\ ~isStreaming
    /\ streamController = None

\* the complete lines of a body, trimmed (the last element of the split is
\* the unfinished line, which is not decoded)
LinesOf(body) ==
  LET lines == Split(body)
  IN [i \in 1..(Len(lines) - 1) |-> Trim(lines[i])]

IsEventLine(line) == StartsWith(line, "event:")

IsDataLine(line) == ~IsEventLine(line) /\ StartsWith(line, "data:")

\* a data: line with a payload, for which a frame is emitted
IsFrameLine(line) == IsDataLine(line) /\ Trim(Slice(line, 5)) # ""

\* the type named by the last event: line among lines[from..to], "text"
\* when there is none
TypeNamedIn(lines, from, to) ==
  LET marks == {j \in from..to : IsEventLine(lines[j])}
      last == CHOOSE j \in marks : \A k \in marks : k <= j
  IN IF marks = {} THEN "text" ELSE Trim(Slice(lines[last], 6))

\* the line before which the search for an event: line of the frame of line
\* i stops: the last line before i that emitted a frame (0 if none)
PreviousFrameLine(lines, i) ==
  LET before == {j \in 1..(i - 1) : IsFrameLine(lines[j])}
  IN IF before = {} THEN 0 ELSE CHOOSE j \in before : \A k \in before : k <= j

\* the same with the last data: line before i, with or without payload
PreviousDataLine(lines, i) ==
  LET before == {j \in 1..(i - 1) : IsDataLine(lines[j])}
  IN IF before = {} THEN 0 ELSE CHOOSE j \in before : \A k \in before : k <= j

\* the number of the frame that line i emits
FrameNumber(lines, i) == Cardinality({j \in 1..i : IsFrameLine(lines[j])})

\* C20 as stated: when a body has been read to its end, the frame of each
\* data: line with a payload has the type named by the last event: line
\* since the line of the previous frame, and the type text without one.
C20_TypeSinceLastFrame ==
  \A t \in Turns : streams[t].phase = "complete" =>
    LET lines == LinesOf(streams[t].body)
    IN \A i \in 1..Len(lines) : IsFrameLine(lines[i]) =>
         /\ FrameNumber(lines, i) <= Len(streams[t].delivered)
         /\ streams[t].delivered[FrameNumber(lines, i)].type =
              TypeNamedIn(lines, PreviousFrameLine(lines, i) + 1, i - 1)

\* C20 (amended): when a body has been read to its end, the frame of each
\* data: line with a payload has the type named by the last event: line
\* since the previous data: line, whether that line had a payload or not,
\* and the type text without one: an explicit type applies to the next
\* data: line only.
C20_TypeSinceLastDataLine ==
  \A t \in Turns : streams[t].phase = "complete" =>
    LET lines == LinesOf(streams[t].body)
    IN \A i \in 1..Len(lines) : IsFrameLine(lines[i]) =>
         /\ FrameNumber(lines, i) <= Len(streams[t].delivered)
         /\ streams[t].delivered[FrameNumber(lines, i)].type =
              TypeNamedIn(lines, PreviousDataLine(lines, i) + 1, i - 1)

\* the body with a data: line without payload after the event: line was
\* read to its end: its one frame has the type text
C20_Witness ==
  \E t \in Turns :
    /\ streams[t].body = BodyEmptyData
    /\ streams[t].phase = "complete"
    /\ streams[t].delivered = <<[type |-> "text", data |-> "e30="]>>

\* the payload of a data: line
PayloadOf(line) == Trim(Slice(line, 5))

\* C21 (lines that emit nothing): when a body has been read to its end, the
\* onMessage calls are exactly those of its data: lines with a payload, in
\* order and with their payloads: no other line caused a call or stopped
\* the loop, and the lines after it were decoded.
C21_SilentLines ==
  \A t \in Turns : streams[t].phase = "complete" =>
    LET lines == LinesOf(streams[t].body)
    IN /\ Len(streams[t].delivered) = FrameNumber(lines, Len(lines))
       /\ \A i \in 1..Len(lines) : IsFrameLine(lines[i]) =>
            streams[t].delivered[FrameNumber(lines, i)].data = PayloadOf(lines[i])

\* the body with a comment line, an empty line, a data: line without
\* payload and a retry: line was read to its end: one call, for "aGk="
C21_Witness ==
  \E t \in Turns : \E i \in PlaceholdersOf(t) :
    /\ streams[t].body = BodyKeepalive
    /\ streams[t].phase = "complete"
    /\ streams[t].delivered = <<[type |-> "text", data |-> "aGk="]>>
    /\ messages[i].content = "hi"

\* part occurs in s
Contains(s, part) ==
  \E i \in 1..(Len(s) - Len(part) + 1) : SubSeq(s, i, i + Len(part) - 1) = part

NotARecord(frame) ==
  \/ ~JSONParse(decodeBase64UTF8(frame.data)).syntaxOk
  \/ JSONParse(decodeBase64UTF8(frame.data)).isNull

\* C23 (parse errors are a no-op for the frame): a tool_end or citation
\* frame whose payload is not JSON, or is JSON but not a record (null),
\* changes no message and no tool call, and the stream is read on.
C23_ParseErrorNoOp ==
  [][\A t \in Turns :
       (/\ OneFrameStep(t)
        /\ FrameOfStep(t).type \in {"tool_end", "citation"}
        /\ NotARecord(FrameOfStep(t))) =>
          /\ messages' = messages
          /\ heap' = heap
          /\ isStreaming' = isStreaming
          /\ streams'[t].phase = "reading"]_vars

\* C24 (folds do not alter earlier snapshots): the messages array published
\* before a fold, with the ToolCall objects it refers to, is the same after
\* the fold: no ToolCall object that existed before the fold is changed.
C24_SnapshotsKept ==
  [][\A t \in Turns : FoldStep(t) =>
       /\ Len(heap') >= Len(heap)
       /\ SubSeq(heap', 1, Len(heap)) = heap]_vars

\* C25 (a done frame finalizes whatever its payload): a done frame whose
\* payload is not JSON sets isStreaming of the placeholder to false, the
\* store isStreaming to false and streamController to null; on a turn that
\* has learned no conversation id it leaves conversations and
\* currentConversationId as they are.
C25_DoneAnyPayload ==
  [][\A t \in Turns :
       (/\ OneFrameStep(t)
        /\ FrameOfStep(t).type = "done"
        /\ ~JSONParse(decodeBase64UTF8(FrameOfStep(t).data)).syntaxOk) =>
          /\ \A i \in PlaceholdersOf(t) :
               /\ Len(messages') >= i
               /\ ~messages'[i].isStreaming
               /\ messages'[i].content = messages[i].content
          /\ ~isStreaming'
          /\ streamController' = None
          /\ streams[t].newConversationId = None =>
               /\ conversations' = conversations
               /\ currentConversationId' = currentConversationId]_vars

\* the done frame with the payload "complete" was folded: the turn is
\* finalized while its stream is still being read
C25_Witness ==
  \E t \in Turns : \E i \in PlaceholdersOf(t) :
    /\ streams[t].body = BodyDonePlain
    /\ streams[t].delivered = <<[type |-> "done", data |-> "Y29tcGxldGU="]>>
    /\ streams[t].phase = "reading"
    /\ ~messages[i].isStreaming
    /\ ~isStreaming
    /\ streamController = None

\* C26 (frames reach only their own placeholder): a read of the stream of
\* turn t changes no message but the placeholder that the sendMessage call
\* of turn t appended, the message at position 2 t.
C26_OwnPlaceholderOnly ==
  [][\A t \in Turns : FoldStep(t) =>
       /\ Len(messages') = Len(messages)
       /\ \A i \in 1..Len(messages) :
            i # 2 * t => messages'[i] = messages[i]]_vars

\* C27 (no pending message without an active turn): when the store is not
\* streaming, no message has isStreaming true.
C27_NoPendingWhenIdle ==
  ~isStreaming => \A i \in 1..Len(messages) : ~messages[i].isStreaming

\* C28 (an open stream stays cancellable): while the stream of a turn is
\* open and no done frame of it has ended the turn, streamController is the
\* controller of that turn and the store is streaming.
C28_OpenStreamCancellable ==
  \A t \in Turns :
    (StreamOpen(t) /\ ~DoneDelivered(t)) =>
       /\ streamController = Some(t)
       /\ isStreaming

\* every line of a body, the last one without newline included, trimmed
AllLinesOf(body) ==
  LET lines == Split(body)
  IN [i \in 1..Len(lines) |-> Trim(lines[i])]

\* C29 (the last line is not lost): when a body has been read to its end
\* and onComplete was called, every data: line with a payload was passed to
\* onMessage once and in order, a last line without newline included.
C29_LastLineDelivered ==
  \A t \in Turns : streams[t].phase = "complete" =>
    LET lines == AllLinesOf(streams[t].body)
    IN /\ Len(streams[t].delivered) = FrameNumber(lines, Len(lines))
       /\ \A i \in 1..Len(lines) : IsFrameLine(lines[i]) =>
            /\ FrameNumber(lines, i) <= Len(streams[t].delivered)
            /\ streams[t].delivered[FrameNumber(lines, i)].data = PayloadOf(lines[i])

\* C30 (bounded 401 retry): for every request sent through apiClient the
\* refresh endpoint is called at most once and the request is sent at most
\* twice; a 401 for a request that was already sent again, or with no
\* refresh token stored, rejects with that error without a refresh or a
\* send; when the refresh call fails both tokens are removed and the
\* request rejects with the error of its first response.
C30_BoundedRetry ==
  [][\A k \in 1..Len(api.requests) :
       LET r == api.requests[k]
           q == api'.requests[k]
       IN /\ q.refreshes <= 1
          /\ q.sends <= 2
          /\ q.sends <= q.refreshes + 1
          /\ (/\ r.phase = "sent"
              /\ q # r
              /\ q.lastStatus = 401
              /\ (r.config._retry \/ api.refreshToken = None)) =>
                /\ q.phase = "rejected"
                /\ q.rejected = Some(401)
                /\ q.refreshes = r.refreshes
                /\ q.sends = r.sends
                /\ api'.accessToken = api.accessToken
                /\ api'.refreshToken = api.refreshToken
          /\ q.refreshFailed /\ ~r.refreshFailed =>
                /\ api'.accessToken = None
                /\ api'.refreshToken = None
                /\ q.phase = "rejected"
                /\ q.rejected = Some(401)
                /\ q.sends = 1]_vars

\* a request was answered 401, the token was refreshed, the request was
\* sent again and answered 401 again: it is rejected after one refresh;
\* and the refresh call of another request has failed
C30_Witness ==
  \E k, j \in 1..Len(api.requests) :
    /\ api.requests[k].phase = "rejected"
    /\ api.requests[k].sends = 2
    /\ api.requests[k].refreshes = 1
    /\ api.requests[k].rejected = Some(401)
    /\ api.requests[j].refreshFailed
    /\ api.requests[j].phase = "rejected"

====
